---- MODULE Spec2Model ----
(***************************************************************************)
(* House price estimator: app/services/scoring.py (score_house_price) and  *)
(* the endpoint of app/main.py (calculate_house_price).                     *)
(*                                                                         *)
(* Python floats are IEEE-754 binary64.  They are modelled bit for bit: a  *)
(* float is a sign, a 53-bit significand and an exponent, every arithmetic *)
(* operation is the exact operation followed by round-to-nearest-even, and *)
(* round(x, 2) is the correctly rounded decimal of the binary value.  The  *)
(* significands do not fit the model checker's integers, so naturals are   *)
(* kept as little-endian sequences of 15-bit limbs.  NaN, infinities,      *)
(* subnormals and the sign of zero are outside the modelled range.         *)
(***************************************************************************)
EXTENDS Integers, Sequences, FiniteSets

----------------------------------------------------------------------------
(* Arbitrary-size naturals: <<>> is 0, a[1] the least significant limb.    *)

Base == 2^15

Rest(a) == IF a = <<>> THEN <<>> ELSE Tail(a)

Low(a) == IF a = <<>> THEN 0 ELSE Head(a)

RECURSIVE BNorm(_)
BNorm(a) ==
  IF a = <<>> THEN <<>>
  ELSE IF a[Len(a)] = 0 THEN BNorm(SubSeq(a, 1, Len(a) - 1)) ELSE a

RECURSIVE BFromInt(_)
BFromInt(n) == IF n = 0 THEN <<>> ELSE <<n % Base>> \o BFromInt(n \div Base)

RECURSIVE BToInt(_)
BToInt(a) == IF a = <<>> THEN 0 ELSE Head(a) + Base * BToInt(Tail(a))

RECURSIVE BAddC(_, _, _)
BAddC(a, b, c) ==
  IF a = <<>> /\ b = <<>> THEN (IF c = 0 THEN <<>> ELSE <<c>>)
  ELSE <<(Low(a) + Low(b) + c) % Base>>
         \o BAddC(Rest(a), Rest(b), (Low(a) + Low(b) + c) \div Base)

BAdd(a, b) == BAddC(a, b, 0)

\* a - b for a >= b
RECURSIVE BSubC(_, _, _)
BSubC(a, b, c) ==
  IF a = <<>> THEN <<>>
  ELSE IF Head(a) - Low(b) - c < 0
       THEN <<Head(a) - Low(b) - c + Base>> \o BSubC(Tail(a), Rest(b), 1)
       ELSE <<Head(a) - Low(b) - c>> \o BSubC(Tail(a), Rest(b), 0)

BSub(a, b) == BNorm(BSubC(a, b, 0))

\* -1, 0, 1 as a < b, a = b, a > b (both normalised)
RECURSIVE BCmpFrom(_, _, _)
BCmpFrom(a, b, i) ==
  IF i = 0 THEN 0
  ELSE IF a[i] < b[i] THEN -1
  ELSE IF a[i] > b[i] THEN 1
  ELSE BCmpFrom(a, b, i - 1)

BCmp(a, b) ==
  IF Len(a) < Len(b) THEN -1
  ELSE IF Len(a) > Len(b) THEN 1
  ELSE BCmpFrom(a, b, Len(a))

\* a * k + c for 0 <= k, c < Base
RECURSIVE BMulSmallC(_, _, _)
BMulSmallC(a, k, c) ==
  IF a = <<>> THEN (IF c = 0 THEN <<>> ELSE <<c>>)
  ELSE <<(Head(a) * k + c) % Base>>
         \o BMulSmallC(Tail(a), k, (Head(a) * k + c) \div Base)

BMulSmall(a, k) == BNorm(BMulSmallC(a, k, 0))

RECURSIVE BMulRows(_, _)
BMulRows(a, b) ==
  IF b = <<>> THEN <<>>
  ELSE BAdd(BMulSmallC(a, Head(b), 0), <<0>> \o BMulRows(a, Tail(b)))

BMul(a, b) == BNorm(BMulRows(a, b))

\* floor(a / k) for 0 < k <= Base, scanning from the most significant limb
RECURSIVE BDivSmallFrom(_, _, _, _)
BDivSmallFrom(a, k, i, r) ==
  IF i = 0 THEN <<>>
  ELSE BDivSmallFrom(a, k, i - 1, (r * Base + a[i]) % k)
         \o <<(r * Base + a[i]) \div k>>

BDivSmall(a, k) == BNorm(BDivSmallFrom(a, k, Len(a), 0))

Zeros(n) == [i \in 1..n |-> 0]

BShl(a, n) ==
  IF a = <<>> THEN <<>>
  ELSE Zeros(n \div 15) \o BMulSmall(a, 2^(n % 15))

BShr(a, n) ==
  IF n \div 15 >= Len(a) THEN <<>>
  ELSE BDivSmall(SubSeq(a, (n \div 15) + 1, Len(a)), 2^(n % 15))

RECURSIVE BitLen(_)
BitLen(n) == IF n = 0 THEN 0 ELSE 1 + BitLen(n \div 2)

BBitLen(a) == IF a = <<>> THEN 0 ELSE 15 * (Len(a) - 1) + BitLen(a[Len(a)])

\* q or q + 1 as the part cut off compares (c) with one half: ties to even
RoundUpIf(q, c) ==
  IF c > 0 \/ (c = 0 /\ Low(q) % 2 = 1) THEN BAdd(q, <<1>>) ELSE q

\* a / 2^n rounded, given its floor q
RoundFrom(a, n, q) ==
  RoundUpIf(q, BCmp(BSub(a, BShl(q, n)), BShl(<<1>>, n - 1)))

\* round-half-even of a / 2^n
BShrRound(a, n) == IF n = 0 THEN a ELSE RoundFrom(a, n, BShr(a, n))

----------------------------------------------------------------------------
(* binary64.  A real number is [neg, m, e], standing for (-1)^neg * m *    *)
(* 2^e with m a natural of any size; a float is such a number with m = 0   *)
(* or 2^52 <= m < 2^53.  X-operators are exact, F-operators round.          *)

RZero == [neg |-> FALSE, m |-> <<>>, e |-> 0]

Real(neg, m, e) == IF m = <<>> THEN RZero ELSE [neg |-> neg, m |-> m, e |-> e]

\* a rounded significand q that carried into a 54th bit is halved
Renormalized(neg, q, e) ==
  IF BBitLen(q) > 53
  THEN [neg |-> neg, m |-> BShr(q, 1), e |-> e + 1]
  ELSE [neg |-> neg, m |-> q, e |-> e]

\* x, whose significand has len bits, at 53 bits
FRoundAt(x, len) ==
  IF len <= 53
  THEN [neg |-> x.neg, m |-> BShl(x.m, 53 - len), e |-> x.e - (53 - len)]
  ELSE Renormalized(x.neg, BShrRound(x.m, len - 53), x.e + (len - 53))

\* round to nearest, ties to even, at 53 significant bits
FRound(x) == IF x.m = <<>> THEN RZero ELSE FRoundAt(x, BBitLen(x.m))

XNeg(x) == Real(~x.neg, x.m, x.e)

XAbs(x) == Real(FALSE, x.m, x.e)

XMul(x, y) == Real(x.neg # y.neg, BMul(x.m, y.m), x.e + y.e)

\* the larger of mx, my less the smaller (c compares them), signed
Difference(xneg, mx, yneg, my, e, c) ==
  IF c = 0 THEN RZero
  ELSE IF c > 0 THEN Real(xneg, BSub(mx, my), e)
  ELSE Real(yneg, BSub(my, mx), e)

\* the sum of two numbers brought to the same exponent e
XAddAligned(xneg, mx, yneg, my, e) ==
  IF xneg = yneg THEN Real(xneg, BAdd(mx, my), e)
  ELSE Difference(xneg, mx, yneg, my, e, BCmp(mx, my))

XAddAt(x, y, e) ==
  XAddAligned(x.neg, BShl(x.m, x.e - e), y.neg, BShl(y.m, y.e - e), e)

XAdd(x, y) ==
  IF x.m = <<>> THEN y
  ELSE IF y.m = <<>> THEN x
  ELSE XAddAt(x, y, IF x.e < y.e THEN x.e ELSE y.e)

XSub(x, y) == XAdd(x, XNeg(y))

\* -1, 0, 1 as x < 0, x = 0, x > 0
XSign(x) == IF x.m = <<>> THEN 0 ELSE IF x.neg THEN -1 ELSE 1

XLt(x, y) == XSign(XSub(x, y)) < 0

XLe(x, y) == XSign(XSub(x, y)) <= 0

XEq(x, y) == XSign(XSub(x, y)) = 0

\* x < y and x <= y of two floats: by sign, then exponent, then significand
Signed(neg, k) == IF neg THEN -k ELSE k

FCmp(x, y) ==
  IF x.m = <<>> THEN -XSign(y)
  ELSE IF y.m = <<>> THEN XSign(x)
  ELSE IF x.neg # y.neg THEN XSign(x)
  ELSE Signed(x.neg, IF x.e < y.e THEN -1
                     ELSE IF x.e > y.e THEN 1 ELSE BCmp(x.m, y.m))

FLt(x, y) == FCmp(x, y) < 0

FLe(x, y) == FCmp(x, y) <= 0

FMul(x, y) == FRound(XMul(x, y))

FAdd(x, y) == FRound(XAdd(x, y))

FSub(x, y) == FRound(XSub(x, y))

\* float(n) of a Python int
FromInt(n) == FRound(Real(n < 0, BFromInt(IF n < 0 THEN -n ELSE n), 0))

\* The float a decimal literal n/d denotes (0 < d <= Base): the quotient is
\* cut after at least 57 bits and the remainder kept as a sticky last bit.
LitFrom(neg, num, d, s, q) ==
  FRound(Real(neg,
              BAdd(BShl(q, 1),
                   IF BSub(num, BMulSmall(q, d)) = <<>> THEN <<>> ELSE <<1>>),
              -(s + 1)))

LitDivide(neg, num, d, s) == LitFrom(neg, num, d, s, BDivSmall(num, d))

LitShifted(n, d, s) ==
  LitDivide(n < 0, BShl(BFromInt(IF n < 0 THEN -n ELSE n), s), d, s)

Lit(n, d) == LitShifted(n, d, 56 + BitLen(d))

\* round(x, ndigits) of a float, as the integer k with result k / 10^ndigits:
\* the binary value is rounded correctly, exact ties to even.
RoundScaled(x, n) ==
  Signed(x.neg, BToInt(IF x.e >= 0 THEN BShl(n, x.e) ELSE BShrRound(n, -x.e)))

PyRound(x, ndigits) == RoundScaled(x, BMulSmall(x.m, 10^ndigits))

----------------------------------------------------------------------------
(* Strings are sequences of one-character strings.                         *)

Whitespace == {" ", "\t", "\n"}

\* str.strip()
RECURSIVE LStrip(_)
LStrip(s) ==
  IF s # <<>> /\ Head(s) \in Whitespace THEN LStrip(Tail(s)) ELSE s

RECURSIVE RStrip(_)
RStrip(s) ==
  IF s # <<>> /\ s[Len(s)] \in Whitespace
  THEN RStrip(SubSeq(s, 1, Len(s) - 1)) ELSE s

\* a strip of the left end only
StripLeftOnly(s) == LStrip(s)

Strip(s) == RStrip(LStrip(s))

\* a conversion that leaves the case alone
UpperCharKeepsCase(c) == c

UpperChar(c) ==
  CASE c = "a" -> "A" [] c = "b" -> "B" [] c = "c" -> "C" [] c = "d" -> "D"
    [] c = "e" -> "E" [] c = "f" -> "F" [] c = "g" -> "G" [] c = "z" -> "Z"
    [] OTHER -> c

\* str.upper()
Upper(s) == [i \in 1..Len(s) |-> UpperChar(s[i])]

----------------------------------------------------------------------------
(* score_house_price.  The argument record a holds area_m2 and             *)
(* location_score as hundredths (the float passed is the one the decimal   *)
(* a.area_m2 / 100 denotes), the integers and booleans as they are, and    *)
(* energy_rating as a string.                                              *)

VARIABLES args, pc, result, http, ncalls, probe

vars == <<args, pc, result, http, ncalls, probe>>

Max(x, y) == IF y > x THEN y ELSE x

\* min(x, y) and max(x, y) of Python: the first argument unless the second
\* is smaller (larger)
PyMin(x, y) == IF FLt(y, x) THEN y ELSE x

PyMax(x, y) == IF FLt(x, y) THEN y ELSE x

\* _clamp: max(lo, min(hi, x))
Clamp(x, lo, hi) == PyMax(lo, PyMin(hi, x))

BASE_PRICE == Lit(50000, 1)

EUR_PER_M2 == Lit(3200, 1)

\* the bedroom rate with a digit lost
EUR_PER_BEDROOM_Mistyped == Lit(1200, 1)

EUR_PER_BEDROOM == Lit(12000, 1)

EUR_PER_BATHROOM == Lit(8000, 1)

EUR_PER_LOCATION_POINT == Lit(18000, 1)

\* the float literals of the function body
F0 == Lit(0, 1)

F1 == Lit(1, 1)

F10 == Lit(10, 1)

AGE_RATE == Lit(35, 10000)

AGE_MULT_MIN == Lit(70, 100)

AGE_MULT_MAX == Lit(105, 100)

GARAGE_VALUE == Lit(15000, 1)

GARDEN_VALUE == Lit(20000, 1)

AREA_LOW == FromInt(20)

AREA_HIGH == FromInt(250)

CONFIDENCE_BASE == Lit(55, 100)

CONFIDENCE_STEP == Lit(10, 100)

\* the energy bonus written like the other three
CONFIDENCE_ENERGY_STEP_AsOthers == Lit(10, 100)

CONFIDENCE_ENERGY_STEP == Lit(5, 100)

CONFIDENCE_MAX == Lit(95, 100)

\* an age that is not floored at 0
AgeSigned(a) == a.current_year - a.year_built

\* age = max(0, current_year - year_built)
Age(a) == Max(0, a.current_year - a.year_built)

\* an age multiplier that is not clamped
AgeMultiplierUnclamped(age) == FSub(F1, FMul(AGE_RATE, FromInt(age)))

AgeMultiplier(age) ==
  Clamp(FSub(F1, FMul(AGE_RATE, FromInt(age))), AGE_MULT_MIN, AGE_MULT_MAX)

\* an accumulator that keeps what the previous call left in it
FeaturesCarriedOver ==
  IF result.status = "ok" THEN result.locals.features_component ELSE F0

\* features_component = 0.0
FeaturesInitial == F0

\* if has_garage: features_component += 15_000.0
WithGarage(a, features) ==
  IF a.has_garage THEN FAdd(features, GARAGE_VALUE) ELSE features

\* if has_garden: features_component += 20_000.0
WithGarden(a, features) ==
  IF a.has_garden THEN FAdd(features, GARDEN_VALUE) ELSE features

FeaturesComponent(a) == WithGarden(a, WithGarage(a, FeaturesInitial))

energy_map ==
  [k \in {<<"A">>, <<"B">>, <<"C">>, <<"D">>, <<"E">>, <<"F">>, <<"G">>} |->
     CASE k = <<"A">> -> Lit(106, 100)
       [] k = <<"B">> -> Lit(103, 100)
       [] k = <<"C">> -> Lit(101, 100)
       [] k = <<"D">> -> Lit(100, 100)
       [] k = <<"E">> -> Lit(97, 100)
       [] k = <<"F">> -> Lit(94, 100)
       [] k = <<"G">> -> Lit(90, 100)]

\* energy_rating = energy_rating.strip().upper()
NormalizeRating(s) == Upper(Strip(s))

\* area_m2 and location_score as the floats passed
AreaArg(a) == Lit(a.area_m2, 100)

LocationArg(a) == Lit(a.location_score, 100)

AreaComponent(area_m2) == FMul(area_m2, EUR_PER_M2)

RoomsComponent(a) ==
  FAdd(FMul(FromInt(a.bedrooms), EUR_PER_BEDROOM),
       FMul(FromInt(a.bathrooms), EUR_PER_BATHROOM))

\* a location component that is not clamped
LocationComponentUnclamped(location_score) ==
  FMul(location_score, EUR_PER_LOCATION_POINT)

LocationComponent(location_score) ==
  FMul(Clamp(location_score, F0, F10), EUR_PER_LOCATION_POINT)

\* the area test with strict comparisons
AreaTypicalStrict(area_m2) == FLt(AREA_LOW, area_m2) /\ FLt(area_m2, AREA_HIGH)

\* 20 <= area_m2 <= 250
AreaTypical(area_m2) == FLe(AREA_LOW, area_m2) /\ FLe(area_m2, AREA_HIGH)

\* 0 <= location_score <= 10
LocationTypical(location_score) ==
  FLe(F0, location_score) /\ FLe(location_score, F10)

\* 1900 <= year_built <= current_year
YearTypical(a) == 1900 <= a.year_built /\ a.year_built <= a.current_year

\* the confidence heuristic before the clamp
\* if <test>: confidence += <step>
Bonus(confidence, test, step) ==
  IF test THEN FAdd(confidence, step) ELSE confidence

ConfidenceSum(a, area_m2, location_score, rating) ==
  Bonus(Bonus(Bonus(Bonus(CONFIDENCE_BASE,
                          AreaTypical(area_m2), CONFIDENCE_STEP),
                    LocationTypical(location_score), CONFIDENCE_STEP),
              YearTypical(a), CONFIDENCE_STEP),
        rating \in {<<"A">>, <<"B">>, <<"C">>, <<"D">>, <<"E">>, <<"F">>, <<"G">>},
        CONFIDENCE_ENERGY_STEP)

\* an age component that is the aged subtotal instead of the delta
AgeComponentNotDelta(pre_mult, age_mult) == FMul(pre_mult, age_mult)

\* age_component = pre_mult * (age_multiplier - 1.0)
AgeComponent(pre_mult, age_mult) == FMul(pre_mult, FSub(age_mult, F1))

\* energy_component = (pre_mult + age_component) * (energy_multiplier - 1.0)
EnergyComponent(pre_mult, age_comp, en_mult) ==
  FMul(FAdd(pre_mult, age_comp), FSub(en_mult, F1))

\* pre_mult = base + area_component + rooms_component + location_component
\*            + features_component
PreMult(base, area, rooms, location, features) ==
  FAdd(FAdd(FAdd(FAdd(base, area), rooms), location), features)

\* estimated = pre_mult * age_multiplier * energy_multiplier
Estimated(pre_mult, age_mult, en_mult) == FMul(FMul(pre_mult, age_mult), en_mult)

\* The local variables of a call at its return statement, given the ones
\* assigned up to the components (l), the subtotal, the confidence
\* heuristic and age_component.
LocalsAtReturn(l, pre_mult, conf_sum, age_comp) ==
  [age |-> l.age, age_multiplier |-> l.age_multiplier,
   energy_rating |-> l.energy_rating,
   energy_multiplier |-> l.energy_multiplier, base |-> l.base,
   area_component |-> l.area_component,
   rooms_component |-> l.rooms_component,
   location_component |-> l.location_component,
   features_component |-> l.features_component, pre_mult |-> pre_mult,
   estimated |-> Estimated(pre_mult, l.age_multiplier, l.energy_multiplier),
   confidence_sum |-> conf_sum,
   confidence |-> Clamp(conf_sum, F0, CONFIDENCE_MAX),
   age_component |-> age_comp,
   energy_component |-> EnergyComponent(pre_mult, age_comp, l.energy_multiplier)]

\* ... given the ones assigned up to pre_mult and the confidence heuristic
LocalsFromSubtotal(l, pre_mult, conf_sum) ==
  LocalsAtReturn(l, pre_mult, conf_sum, AgeComponent(pre_mult, l.age_multiplier))

\* ... given the ones assigned up to the components
LocalsFromComponents(a, area_m2, location_score, l) ==
  LocalsFromSubtotal(l,
                     PreMult(l.base, l.area_component, l.rooms_component,
                             l.location_component, l.features_component),
                     ConfidenceSum(a, area_m2, location_score, l.energy_rating))

\* ... given the age, the rating and the float arguments
LocalsFromArgs(a, age, rating, area_m2, location_score) ==
  LocalsFromComponents(a, area_m2, location_score,
    [age |-> age, age_multiplier |-> AgeMultiplier(age),
     features_component |-> FeaturesComponent(a),
     energy_rating |-> rating, energy_multiplier |-> energy_map[rating],
     base |-> BASE_PRICE, area_component |-> AreaComponent(area_m2),
     rooms_component |-> RoomsComponent(a),
     location_component |-> LocationComponent(location_score)])

\* The local variables of a call that reaches the return statement.
Locals(a) ==
  LocalsFromArgs(a, Age(a), NormalizeRating(a.energy_rating),
                 AreaArg(a), LocationArg(a))

\* PriceBreakdown(...): each field is round(value, 2), held in hundredths
PriceBreakdown(l) ==
  [estimated_price    |-> PyRound(l.estimated, 2),
   base               |-> PyRound(l.base, 2),
   area_component     |-> PyRound(l.area_component, 2),
   rooms_component    |-> PyRound(l.rooms_component, 2),
   location_component |-> PyRound(l.location_component, 2),
   age_component      |-> PyRound(l.age_component, 2),
   features_component |-> PyRound(l.features_component, 2),
   energy_component   |-> PyRound(l.energy_component, 2),
   confidence         |-> PyRound(l.confidence, 2)]

Raises(a) == NormalizeRating(a.energy_rating) \notin DOMAIN energy_map

\* return PriceBreakdown(...)
Returns(l) == [status |-> "ok", locals |-> l, value |-> PriceBreakdown(l)]

\* what the call leaves: the exception raised, or the value returned
ScoreHousePrice(a) ==
  IF Raises(a)
  THEN [status |-> "ValueError", locals |-> <<>>, value |-> <<>>]
  ELSE Returns(Locals(a))

----------------------------------------------------------------------------
(* The calls.  args are the keyword arguments of the call in progress, pc  *)
(* its position, result what the last finished call left (its outcome, its *)
(* local variables at the return, the value returned), http the endpoint's *)
(* last response, ncalls the number of calls finished, probe an earlier    *)
(* call kept for comparison.                                               *)

DEFAULT_CURRENT_YEAR == 2026

None == [status |-> "none"]

\* HousePriceRequest: the field constraints a payload passes before the
\* handler runs
HousePriceRequest(a) ==
  /\ a.area_m2 > 0 /\ a.area_m2 <= 2000 * 100
  /\ a.bedrooms >= 0 /\ a.bedrooms <= 20
  /\ a.bathrooms >= 0 /\ a.bathrooms <= 20
  /\ a.location_score >= 0 /\ a.location_score <= 10 * 100
  /\ a.year_built >= 1800 /\ a.year_built <= 2100

\* HousePriceResponse(...), or the HTTPException raised for a ValueError
Response(r) ==
  IF r.status = "ValueError" THEN [status_code |-> 422]
  ELSE [status_code |-> 200,
        estimated_price |-> r.value.estimated_price,
        currency |-> "EUR",
        confidence |-> r.value.confidence,
        breakdown |-> [base |-> r.value.base,
                       area_component |-> r.value.area_component,
                       rooms_component |-> r.value.rooms_component,
                       location_component |-> r.value.location_component,
                       features_component |-> r.value.features_component,
                       age_component |-> r.value.age_component,
                       energy_component |-> r.value.energy_component]]

\* a direct call of score_house_price runs to its return or its raise
Score ==
  /\ pc = "idle"
  /\ result' = ScoreHousePrice(args)
  /\ pc' = "done"
  /\ http' = None
  /\ ncalls' = ncalls + 1
  /\ UNCHANGED <<args, probe>>

\* POST /api/v1/house-price: the handler calls score_house_price without
\* current_year and maps the outcome to a response
CalculateHousePrice ==
  /\ pc = "idle"
  /\ HousePriceRequest(args)
  /\ args.current_year = DEFAULT_CURRENT_YEAR
  /\ result' = ScoreHousePrice(args)
  /\ http' = Response(result')
  /\ pc' = "done"
  /\ ncalls' = ncalls + 1
  /\ UNCHANGED <<args, probe>>

----------------------------------------------------------------------------
(* Inputs.                                                                 *)

MaxLen == 3

MaxRooms == 1

Alphabet ==
  {"A", "B", "C", "D", "E", "F", "G", "a", "b", "c", "d", "e", "f", "g", "Z", " "}

Strings == UNION {[1..n -> Alphabet] : n \in 0..MaxLen}

\* the scenario of the specification's section 8
Scenario ==
  [area_m2 |-> 7500, bedrooms |-> 2, bathrooms |-> 1, location_score |-> 700,
   year_built |-> 1998, has_garage |-> TRUE, has_garden |-> FALSE,
   energy_rating |-> <<"C">>, current_year |-> 2026]

\* prices: every combination of a few values of each argument, with the
\* seven grades as the table writes them
PriceInputs ==
  [area_m2 : {-10000, 1999, 7500, 200000}, bedrooms : 0..MaxRooms,
   bathrooms : 0..MaxRooms, location_score : {-100, 700, 1050},
   year_built : {1800, 1998, 2027}, has_garage : BOOLEAN,
   has_garden : BOOLEAN, energy_rating : DOMAIN energy_map,
   current_year : {DEFAULT_CURRENT_YEAR}]

\* confidence and age: the arguments the heuristic reads, at and around the
\* limits it tests, the rest as in the scenario
ConfidenceInputs ==
  {[Scenario EXCEPT !.area_m2 = a, !.location_score = l, !.year_built = y,
                    !.current_year = c] :
     a \in {-10000, 100, 1999, 2000, 7500, 25000, 25001},
     l \in {-100, 0, 700, 1000, 1050},
     y \in {1800, 1899, 1900, 1998, 2000, 2026, 2027},
     c \in {2000, DEFAULT_CURRENT_YEAR}}

\* ratings: every string up to MaxLen as the rating of the scenario
RatingInputs == {[Scenario EXCEPT !.energy_rating = s] : s \in Strings}

Inputs == PriceInputs \cup ConfidenceInputs \cup RatingInputs

Init ==
  /\ args \in Inputs
  /\ pc = "idle"
  /\ result = None
  /\ http = None
  /\ ncalls = 0
  /\ probe = None

Next == Score \/ CalculateHousePrice

Spec == Init /\ [][Next]_vars

----------------------------------------------------------------------------
(* Calls one after another, for what one call leaves to the next: the      *)
(* process keeps running, result holds what the previous call left while   *)
(* the next one starts, and one earlier call is kept in probe.             *)

MaxCalls == 3

\* the scenario with each combination of features, as four ratings
RepeatInputs ==
  {[Scenario EXCEPT !.has_garage = ga, !.has_garden = gd, !.energy_rating = s] :
     ga \in BOOLEAN, gd \in BOOLEAN,
     s \in {<<"C">>, <<"a">>, <<" ", "g">>, <<"Z">>}}

\* the caller makes another call
NextCall ==
  /\ pc = "done"
  /\ ncalls < MaxCalls
  /\ args' \in RepeatInputs
  /\ pc' = "idle"
  /\ UNCHANGED <<result, http, ncalls, probe>>

\* the observer keeps the call just finished
Remember ==
  /\ pc = "done"
  /\ probe = None
  /\ probe' = [status |-> "kept", args |-> args, result |-> result, at |-> ncalls]
  /\ UNCHANGED <<args, pc, result, http, ncalls>>

InitRepeat ==
  /\ args \in RepeatInputs
  /\ pc = "idle"
  /\ result = None
  /\ http = None
  /\ ncalls = 0
  /\ probe = None

NextRepeat == Score \/ CalculateHousePrice \/ NextCall \/ Remember

SpecRepeat == InitRepeat /\ [][NextRepeat]_vars

----------------------------------------------------------------------------
(* The claims.  Amounts are compared in hundredths, as the breakdown holds *)
(* them; the arguments area_m2 and location_score are hundredths too.      *)

Returned == pc = "done" /\ result.status = "ok"

GradeNames == {"A", "B", "C", "D", "E", "F", "G"}

LowerCase ==
  [g \in GradeNames |->
     CASE g = "A" -> "a" [] g = "B" -> "b" [] g = "C" -> "c" [] g = "D" -> "d"
       [] g = "E" -> "e" [] g = "F" -> "f" [] g = "G" -> "g"]

\* s is the grade g in either case with nothing but blanks around it
WrittenAs(s, g) ==
  \E i \in 1..Len(s) :
    /\ s[i] \in {g, LowerCase[g]}
    /\ \A j \in 1..Len(s) : j # i => s[j] \in {" ", "\t", "\n"}

ValidRating(s) == \E g \in GradeNames : WrittenAs(s, g)

ScenarioCall == Returned /\ args = Scenario

ScenarioComponents ==
  /\ result.value.base = 5000000
  /\ result.value.area_component = 24000000
  /\ result.value.rooms_component = 3200000
  /\ result.value.location_component = 12600000
  /\ result.value.features_component = 1500000
  /\ result.locals.pre_mult = FromInt(463000)
  /\ result.locals.age = 28
  /\ result.locals.age_multiplier = Lit(902, 1000)
  /\ result.locals.energy_multiplier = Lit(101, 100)

\* C2 as stated: the scenario returns the listed components and an
\* estimated price of 421,788.86.
C2_ScenarioAsStated ==
  ScenarioCall => ScenarioComponents /\ result.value.estimated_price = 42178886

\* C2 amended: the scenario returns the listed components and an estimated
\* price of 421,802.26, which is 463000 * 0.902 * 1.01 to the cent.
C2_ScenarioPrice ==
  ScenarioCall => ScenarioComponents /\ result.value.estimated_price = 42180226

C2_Witness == ScenarioCall /\ result.value.estimated_price = 42180226

ClampInt(x, lo, hi) == IF x < lo THEN lo ELSE IF x > hi THEN hi ELSE x

\* the claimed age multiplier in ten-thousandths
ClaimedAgeMultiplier(a) ==
  ClampInt(10000 - 35 * (IF a.current_year > a.year_built
                         THEN a.current_year - a.year_built ELSE 0),
           7000, 10500)

\* |x - n / 10000| <= 2^-52
WithinUlpOfTenThousandths(x, n) ==
  XLe(XAbs(XSub(XMul(x, FromInt(10000)), FromInt(n))),
      Real(FALSE, BFromInt(10000), -52))

\* C3: the age multiplier is clamp(1 - 0.0035 * max(0, current_year -
\* year_built), 0.70, 1.05) (to the last binary place), so it lies in
\* [0.70, 1.05]; year_built 1800 with current_year 2026 gives exactly 0.70.
C3_AgeMultiplierClamped ==
  Returned =>
    /\ WithinUlpOfTenThousandths(result.locals.age_multiplier,
                                 ClaimedAgeMultiplier(args))
    /\ FLe(Lit(70, 100), result.locals.age_multiplier)
    /\ FLe(result.locals.age_multiplier, Lit(105, 100))
    /\ (args.year_built = 1800 /\ args.current_year = 2026)
         => result.locals.age_multiplier = Lit(70, 100)

C3_Witness ==
  /\ Returned
  /\ args.year_built = 1800 /\ args.current_year = 2026
  /\ result.locals.age_multiplier = Lit(70, 100)

\* the claimed confidence in hundredths
ClaimedConfidence(a) ==
  ClampInt(55 + (IF 2000 <= a.area_m2 /\ a.area_m2 <= 25000 THEN 10 ELSE 0)
              + (IF 0 <= a.location_score /\ a.location_score <= 1000 THEN 10 ELSE 0)
              + (IF 1900 <= a.year_built /\ a.year_built <= a.current_year
                 THEN 10 ELSE 0)
              + 5,
           0, 95)

\* C4: the confidence returned is 0.55, plus 0.10 for an area in [20, 250],
\* 0.10 for a location score in [0, 10], 0.10 for a year built in [1900,
\* current_year] and 0.05 for the grade, clamped to [0, 0.95].
C4_ConfidenceFormula ==
  Returned =>
    /\ result.value.confidence = ClaimedConfidence(args)
    /\ 0 <= result.value.confidence /\ result.value.confidence <= 95

\* area 1, location 0, built in the current year: no area bonus, the rest
C4_Witness ==
  /\ Returned
  /\ args.area_m2 = 100 /\ args.location_score = 0
  /\ args.year_built = args.current_year
  /\ result.value.confidence = 80

\* C5: a grade written in lower case or with blanks around it selects the
\* multiplier of the grade and returns what the grade itself returns.
C5_RatingCaseAndBlanks ==
  pc = "done" =>
    \A g \in GradeNames :
      (WrittenAs(args.energy_rating, g) /\ args.energy_rating # <<g>>) =>
        /\ result.status = "ok"
        /\ result.locals.energy_multiplier = energy_map[<<g>>]
        /\ result = ScoreHousePrice([args EXCEPT !.energy_rating = <<g>>])

C5_Witness ==
  /\ Returned
  /\ args.energy_rating = <<" ", "a", " ">>
  /\ result.locals.energy_multiplier = Lit(106, 100)

\* the claimed multiplier of a grade in hundredths
ClaimedEnergyMultiplier(k) ==
  CASE k = <<"A">> -> 106 [] k = <<"B">> -> 103 [] k = <<"C">> -> 101
    [] k = <<"D">> -> 100 [] k = <<"E">> -> 97 [] k = <<"F">> -> 94
    [] k = <<"G">> -> 90

ClaimedArea(a) == a.area_m2 * 3200

ClaimedRooms(a) == (a.bedrooms * 12000 + a.bathrooms * 8000) * 100

ClaimedLocation(a) == ClampInt(a.location_score, 0, 1000) * 18000

ClaimedFeatures(a) ==
  (IF a.has_garage THEN 1500000 ELSE 0) + (IF a.has_garden THEN 2000000 ELSE 0)

\* the claimed subtotal in hundredths
ClaimedPreMult(a) ==
  5000000 + ClaimedArea(a) + ClaimedRooms(a) + ClaimedLocation(a)
    + ClaimedFeatures(a)

\* the claimed price in hundredths, times 10^6, an exact integer:
\* pre_mult * age_multiplier * energy_multiplier
ClaimedPriceMillionths(a) ==
  XMul(XMul(FromInt(ClaimedPreMult(a)), FromInt(ClaimedAgeMultiplier(a))),
       FromInt(ClaimedEnergyMultiplier(NormalizeRating(a.energy_rating))))

\* k is x / 10^6 rounded to a nearest integer: |k * 10^6 - x| <= 10^6 / 2
RoundsMillionths(k, x) ==
  XLe(XAbs(XSub(XMul(FromInt(k), FromInt(1000000)), x)), FromInt(500000))

\* C7: the fields returned are the values of the formula rounded to two
\* decimals; a location score outside [0, 10] is clamped.
C7_FieldsFollowFormula ==
  Returned =>
    /\ result.value.base = 5000000
    /\ result.value.area_component = ClaimedArea(args)
    /\ result.value.rooms_component = ClaimedRooms(args)
    /\ result.value.location_component = ClaimedLocation(args)
    /\ result.value.features_component = ClaimedFeatures(args)
    /\ RoundsMillionths(result.value.estimated_price,
                        ClaimedPriceMillionths(args))

C7_Witness ==
  /\ Returned
  /\ args.location_score = 1050
  /\ result.value.location_component = 18000000
  /\ args.year_built = 1998 /\ args.energy_rating = <<"A">>

\* the seven components before rounding, added as real numbers
ComponentSum(l) ==
  XAdd(XAdd(XAdd(XAdd(XAdd(XAdd(l.base, l.area_component), l.rooms_component),
                      l.location_component), l.features_component),
            l.age_component), l.energy_component)

NoNegativeComponent(a) == a.area_m2 >= 0 /\ a.bedrooms >= 0 /\ a.bathrooms >= 0

\* C8 as stated: before rounding, the seven components add up exactly to
\* the estimated price.
C8_ExactDecomposition ==
  Returned => XEq(ComponentSum(result.locals), result.locals.estimated)

\* C8 amended: before rounding, the seven components add up to the
\* estimated price up to the rounding of the float operations: when no
\* component of the subtotal is negative the two differ by at most 2^-49
\* of the estimated price.
C8_DecompositionUpToRounding ==
  (Returned /\ NoNegativeComponent(args)) =>
    XLe(XAbs(XSub(ComponentSum(result.locals), result.locals.estimated)),
        XMul(result.locals.estimated, Real(FALSE, <<1>>, -49)))

C8_Witness ==
  /\ Returned /\ NoNegativeComponent(args)
  /\ ~XEq(ComponentSum(result.locals), result.locals.estimated)

C10_ConfidenceValues ==
  Returned =>
    /\ result.value.confidence \in {60, 70, 80, 90}
    /\ result.locals.confidence = result.locals.confidence_sum
    /\ FLt(result.locals.confidence, Lit(95, 100))

C10_Witness ==
  /\ Returned
  /\ result.value.confidence = 60
  /\ args.area_m2 < 2000 /\ args.location_score < 0 /\ args.year_built < 1900

====
